---- MODULE Spec2Model ----
(***************************************************************************)
(* Model of backend/merge_data_files.py: the path extractor                *)
(* (traverse_keys), the mapping evaluator (extract), the source adapter    *)
(* (extract_data), the folder aggregator (process_files_in_folder) and the *)
(* run driver (__main__, main, save_metadata).                             *)
(***************************************************************************)
EXTENDS Integers, Sequences, FiniteSets, TLC

VARIABLES
    pc,                 \* the call of the script that runs next, "done", "aborted", or "idle"
    data_dir,           \* the input root: folder name -> source kind -> file state
    output,             \* the output root: file name -> content written
    combined_metadata,  \* main's local list of summary records
    visited,            \* folders os.walk has already yielded
    events,             \* history of the run's externally visible steps
    err,                \* the exception that ended the run, or "none"
    call,               \* arguments of the pure function under evaluation
    ret                 \* its result, or Pending

vars == <<pc, data_dir, output, combined_metadata, visited, events, err, call, ret>>

(***************************************************************************)
(* Parsed values: what yaml.safe_load / json.load return.                  *)
(***************************************************************************)
Null == [t |-> "null"]
Str(s) == [t |-> "str", v |-> s]
Num(n) == [t |-> "num", v |-> n]
Bool(b) == [t |-> "bool", v |-> b]
List(s) == [t |-> "list", v |-> s]
Dict(f) == [t |-> "dict", v |-> f]

EmptyMap == [k \in {} |-> Null]

IsList(d) == d.t = "list"

IsDict(d) == d.t = "dict"

\* dict.get(key): the value at key, None when the key is missing
DictGet(d, key) == IF key \in DOMAIN d.v THEN d.v[key] ELSE Null

\* Python truthiness of a parsed value
Truthy(d) ==
    CASE d.t = "null" -> FALSE
      [] d.t = "str"  -> d.v # ""
      [] d.t = "num"  -> d.v # 0
      [] d.t = "bool" -> d.v
      [] d.t = "list" -> d.v # <<>>
      [] d.t = "dict" -> DOMAIN d.v # {}

(***************************************************************************)
(* traverse_keys(d, *keys)                                                 *)
(***************************************************************************)
RECURSIVE traverse_keys_last(_, _)
traverse_keys_last(d, keys) ==
    IF keys = <<>> THEN d
    ELSE LET d1 == IF IsList(d)
                   THEN (IF d.v # <<>> THEN d.v[Len(d.v)] ELSE Null)
                   ELSE d
         IN  IF IsDict(d1)
             THEN traverse_keys_last(DictGet(d1, Head(keys)), Tail(keys))
             ELSE Null

RECURSIVE traverse_keys_keep(_, _)
traverse_keys_keep(d, keys) ==
    IF keys = <<>> THEN d
    ELSE LET d1 == IF IsList(d)
                   THEN (IF d.v # <<>> THEN d.v[1] ELSE Null)
                   ELSE d
         IN  IF IsDict(d1)
             THEN traverse_keys_keep(DictGet(d1, Head(keys)), Tail(keys))
             ELSE d1

RECURSIVE traverse_keys(_, _)
traverse_keys(d, keys) ==
    IF keys = <<>> THEN d
    ELSE LET d1 == IF IsList(d)
                   THEN (IF d.v # <<>> THEN d.v[1] ELSE Null)
                   ELSE d
         IN  IF IsDict(d1)
             THEN traverse_keys(DictGet(d1, Head(keys)), Tail(keys))
             ELSE Null

(***************************************************************************)
(* Results of a call.                                                      *)
(***************************************************************************)
Pending == [t |-> "pending"]
Returned(x) == [t |-> "returned", v |-> x]
Raised(e) == [t |-> "raised", v |-> e]
NoCall == [fn |-> "none"]

(***************************************************************************)
(* The run's variables while a pure function is evaluated on its own.      *)
(***************************************************************************)
RunIdle ==
    /\ pc = "idle"
    /\ data_dir = EmptyMap
    /\ output = EmptyMap
    /\ combined_metadata = <<>>
    /\ visited = {}
    /\ events = <<>>
    /\ err = "none"

(***************************************************************************)
(* Bounded records and paths for the path extractor.                       *)
(***************************************************************************)
MaxDepth == 3
MaxPathLen == 3
Keys == {"a", "b"}
Other == Dict([a |-> Str("y"), b |-> Str("y")])

RECURSIVE Level(_)
Level(n) ==
    LET base == {Null, Str("x"), List(<<>>), Dict(EmptyMap)}
    IN  IF n = 0 THEN base
        ELSE LET below == Level(n - 1)
             IN  base
                 \cup {List(<<x>>) : x \in below}
                 \cup {List(<<x, Other>>) : x \in below}
                 \cup {Dict([k \in {key} |-> x]) : key \in Keys, x \in below}
                 \cup {Dict([a |-> x, b |-> Str("x")]) : x \in below}

Records == Level(MaxDepth)

Paths == UNION {[1..n -> Keys] : n \in 0..MaxPathLen}

InitResolve ==
    /\ RunIdle
    /\ call \in {[fn |-> "traverse_keys", d |-> r, keys |-> p] : r \in Records, p \in Paths}
    /\ ret = Pending

Resolve ==
    /\ call.fn = "traverse_keys"
    /\ ret = Pending
    /\ ret' = Returned(traverse_keys(call.d, call.keys))
    /\ UNCHANGED <<pc, data_dir, output, combined_metadata, visited, events, err, call>>

NextResolve == Resolve

SpecResolve == InitResolve /\ [][NextResolve]_vars

Resolved == call.fn = "traverse_keys" /\ ret.t = "returned"

Prefix(p, i) == SubSeq(p, 1, i)

\* a value no further key can descend into
Stuck(d) == d.t \in {"null", "str", "num", "bool"} \/ d = List(<<>>)

\* C4 as stated: for every sequence r and every path p, resolve(r, p) equals
\* resolve(r[0], p) when r is non-empty and is absent when r is empty.
C4_HeadOrig ==
    (Resolved /\ IsList(call.d)) =>
        IF call.d.v = <<>>
        THEN ret.v = Null
        ELSE ret.v = traverse_keys(call.d.v[1], call.keys)

\* C4 amended: for every sequence r and every non-empty path p, resolve(r, p) is
\* absent when r is empty or when r[0] is itself a sequence, and equals
\* resolve(r[0], p) otherwise.
C4_Head ==
    (Resolved /\ IsList(call.d) /\ call.keys # <<>>) =>
        IF call.d.v = <<>> \/ IsList(call.d.v[1])
        THEN ret.v = Null
        ELSE ret.v = traverse_keys(call.d.v[1], call.keys)

C4_Witness ==
    /\ Resolved
    /\ IsList(call.d)
    /\ Len(call.d.v) = 2
    /\ Len(call.keys) = 2
    /\ ret.v = Str("x")

\* C5: if some proper prefix of p (a prefix followed by at least one more key)
\* resolves to a scalar, to a missing key (None) or to an empty sequence, then
\* resolve(r, p) returns absent; the call returns, it never raises.
C5_Absent ==
    (call.fn = "traverse_keys" /\ ret # Pending) =>
        /\ ret.t = "returned"
        /\ (\E i \in 0..(Len(call.keys) - 1) :
                Stuck(traverse_keys(call.d, Prefix(call.keys, i))))
            => ret.v = Null

C5_Witness ==
    /\ Resolved
    /\ Len(call.keys) = 3
    /\ ~Stuck(call.d)
    /\ ~Stuck(traverse_keys(call.d, Prefix(call.keys, 1)))
    /\ traverse_keys(call.d, Prefix(call.keys, 2)) = Str("x")
    /\ ret.v = Null

(***************************************************************************)
(* The mapping tables.  A field's spec is a path (the tuple of keys in the *)
(* source) or a group (the nested dict in the source).                     *)
(***************************************************************************)
P(keys) == [kind |-> "path", keys |-> keys]
G(fields) == [kind |-> "group", fields |-> fields]

SUMMARY_DATA_KEY_MAPPINGS ==
    [bioconda |->
        [name |-> P(<<"package", "name">>),
         version |-> P(<<"package", "version">>),
         license |-> P(<<"about", "license">>),
         summary |-> P(<<"about", "summary">>)],
     biotools |->
        [license |-> P(<<"license">>),
         summary |-> P(<<"description">>),
         addition_date |-> P(<<"additionDate">>),
         last_update_date |-> P(<<"lastUpdate">>),
         version |-> P(<<"version">>)],
     bioschemas |->
        [name |-> P(<<"sc:name">>),
         license |-> P(<<"sc:license">>),
         version |-> P(<<"sc:softwareVersion">>)],
     galaxy |->
        [summary |-> P(<<"Description">>),
         edam_topics |-> P(<<"EDAM_topics">>)],
     biocontainers |->
        [name |-> P(<<"name">>),
         license |-> P(<<"license">>),
         summary |-> P(<<"description">>)]]

PAGE_DATA_KEY_MAPPINGS ==
    [bioconda |->
        [name |-> P(<<"package", "name">>),
         version |-> P(<<"package", "version">>),
         home |-> P(<<"about", "home">>),
         documentation |-> P(<<"about", "doc_url">>),
         license |-> P(<<"about", "license">>),
         summary |-> P(<<"about", "summary">>),
         identifiers |-> P(<<"extra", "identifiers">>)],
     biocontainers |->
        [name |-> P(<<"name">>),
         identifiers |-> P(<<"identifiers">>),
         license |-> P(<<"license">>),
         summary |-> P(<<"description">>)],
     biotools |->
        [id |-> P(<<"biotoolsID">>),
         home |-> P(<<"homepage">>),
         license |-> P(<<"license">>),
         summary |-> P(<<"description">>),
         addition_date |-> P(<<"additionDate">>),
         last_update_date |-> P(<<"lastUpdate">>),
         tool_type |-> P(<<"toolType">>),
         version |-> P(<<"version">>)],
     bioschemas |->
        [name |-> P(<<"sc:name">>),
         home |-> P(<<"@id">>),
         license |-> P(<<"sc:license">>),
         version |-> P(<<"sc:softwareVersion">>),
         summary |-> P(<<"sc:description">>),
         tool_type |-> P(<<"@type">>)],
     galaxy |->
        [first_commit |-> P(<<"Suite_first_commit_date">>),
         conda_name |-> P(<<"Suite_conda_package">>),
         conda_version |-> P(<<"Latest_suite_conda_package_version">>),
         summary |-> P(<<"Description">>),
         edam_operations |-> P(<<"EDAM_operations">>),
         edam_topics |-> P(<<"EDAM_topics">>),
         toolshed_categories |-> P(<<"ToolShed_categories">>),
         toolshed_id |-> P(<<"Suite_ID">>),
         users_5_years |-> P(<<"Suite_users_(last_5_years)_on_main_servers">>),
         users_all_time |-> P(<<"Suite_users_on_main_servers">>),
         usage_5_years |-> P(<<"Suite_runs_(last_5_years)_on_main_servers">>),
         usage_all_time |-> P(<<"Suite_runs_on_main_servers">>),
         bio_tools_summary |-> P(<<"bio.tool_description">>),
         bio_tools_ids |-> P(<<"bio.tool_ID">>),
         bio_tools_name |-> P(<<"bio.tool_name">>),
         related_tutorials |-> P(<<"Related_Tutorials">>),
         related_workflows |-> P(<<"Related_Workflows">>),
         tool_ids |-> P(<<"Tool_IDs">>),
         no_of_tools |-> G(
            [eu |-> P(<<"Number_of_tools_on_UseGalaxy.eu">>),
             org |-> P(<<"Number_of_tools_on_UseGalaxy.org_(Main)">>),
             au |-> P(<<"Number_of_tools_on_UseGalaxy.org.au">>),
             be |-> P(<<"Number_of_tools_on_UseGalaxy.be">>),
             cz |-> P(<<"Number_of_tools_on_UseGalaxy.cz">>),
             fr |-> P(<<"Number_of_tools_on_UseGalaxy.fr">>),
             no |-> P(<<"Number_of_tools_on_UseGalaxy.no">>)])]]

ToolTypes == {"bioconda", "biocontainers", "biotools", "bioschemas", "galaxy"}

(***************************************************************************)
(* extract(d, mappings): the output is a dict with one entry per field of  *)
(* the table; a group becomes a nested dict, a path the value found or     *)
(* None.                                                                   *)
(***************************************************************************)
OrNone(x) == IF Truthy(x) THEN x ELSE Null

RECURSIVE extract_raw(_, _)
extract_raw(d, mappings) ==
    [k \in DOMAIN mappings |->
        IF mappings[k].kind = "group"
        THEN Dict(extract_raw(d, mappings[k].fields))
        ELSE traverse_keys(d, mappings[k].keys)]

RECURSIVE extract_found(_, _)
extract_found(d, mappings) ==
    LET found == {k \in DOMAIN mappings :
                    \/ mappings[k].kind = "group"
                    \/ Truthy(traverse_keys(d, mappings[k].keys))}
    IN  [k \in found |->
            IF mappings[k].kind = "group"
            THEN Dict(extract_found(d, mappings[k].fields))
            ELSE traverse_keys(d, mappings[k].keys)]

RECURSIVE extract(_, _)
extract(d, mappings) ==
    [k \in DOMAIN mappings |->
        IF mappings[k].kind = "group"
        THEN Dict(extract(d, mappings[k].fields))
        ELSE OrNone(traverse_keys(d, mappings[k].keys))]

(***************************************************************************)
(* extract_data(tool_type, data, key_mappings)                             *)
(***************************************************************************)
RECURSIVE SeqOfStrs(_)
SeqOfStrs(S) ==
    IF S = {} THEN <<>>
    ELSE LET k == CHOOSE x \in S : TRUE IN <<Str(k)>> \o SeqOfStrs(S \ {k})

\* `for entry in graph`: the entries a value yields when iterated.  A list
\* yields its elements, a dict its keys, a str its characters (the strings of
\* the model have at most one character); None, a number or a bool cannot be
\* iterated.
IterEntries(graph) ==
    CASE graph.t = "list" -> Returned(graph.v)
      [] graph.t = "dict" -> Returned(SeqOfStrs(DOMAIN graph.v))
      [] graph.t = "str"  -> Returned(IF graph.v = "" THEN <<>> ELSE <<Str(graph.v)>>)
      [] OTHER            -> Raised("TypeError")

\* next((entry for entry in graph if entry.get("@type") == ...), None)
RECURSIVE FirstSoftware(_)
FirstSoftware(entries) ==
    IF entries = <<>> THEN Returned(Null)
    ELSE LET entry == Head(entries)
         IN  IF ~IsDict(entry) THEN Raised("AttributeError")
             ELSE IF DictGet(entry, "@type") = Str("sc:SoftwareApplication")
                  THEN Returned(entry)
                  ELSE FirstSoftware(Tail(entries))

extract_data(tool_type, data, key_mappings) ==
    LET mappings == IF tool_type \in DOMAIN key_mappings
                    THEN key_mappings[tool_type]
                    ELSE EmptyMap
    IN  IF tool_type = "bioschemas"
        THEN IF ~IsDict(data) THEN Raised("AttributeError")
             ELSE LET graph == IF "@graph" \in DOMAIN data.v
                               THEN data.v["@graph"]
                               ELSE List(<<>>)
                      entries == IterEntries(graph)
                  IN  IF entries.t = "raised" THEN entries
                      ELSE LET software_data == FirstSoftware(entries.v)
                           IN  IF software_data.t = "raised" THEN software_data
                               ELSE IF Truthy(software_data.v)
                                    THEN Returned([k \in {tool_type} |->
                                            extract(software_data.v, mappings)])
                                    ELSE Returned(EmptyMap)
        ELSE Returned([k \in {tool_type} |-> extract(data, mappings)])

(***************************************************************************)
(* Bounded records for the mapping evaluator: for each source kind, the    *)
(* keys its two tables look up, wrapped twice around the leaf values.      *)
(***************************************************************************)
Tables == [summary |-> SUMMARY_DATA_KEY_MAPPINGS, page |-> PAGE_DATA_KEY_MAPPINGS]

RECURSIVE TableKeys(_)
TableKeys(mappings) ==
    UNION {IF mappings[k].kind = "group"
           THEN TableKeys(mappings[k].fields)
           ELSE {mappings[k].keys[i] : i \in DOMAIN mappings[k].keys}
           : k \in DOMAIN mappings}

KindKeys(tool_type) ==
    TableKeys(SUMMARY_DATA_KEY_MAPPINGS[tool_type])
        \cup TableKeys(PAGE_DATA_KEY_MAPPINGS[tool_type])

Leaves ==
    {Null, Str(""), Str("x"), Num(0), Num(1), Bool(FALSE), List(<<>>), Dict(EmptyMap)}

Wrap(S, K) ==
    S \cup {List(<<x>>) : x \in S}
      \cup {Dict([k \in {key} |-> x]) : key \in K, x \in S}
      \cup {Dict([k \in K |-> x]) : x \in S}

SoftwareNode(x) ==
    Dict([k \in KindKeys("bioschemas") |->
            IF k = "@type" THEN Str("sc:SoftwareApplication") ELSE x])

GraphEntries ==
    {Null, Str("x"), List(<<>>), Dict(EmptyMap),
     Dict([k \in {"@type"} |-> Str("sc:Person")]),
     Dict([k \in {"@type"} |-> List(<<Str("sc:SoftwareApplication")>>)])}
        \cup {SoftwareNode(x) : x \in Leaves}

Graphs ==
    {Null, Num(1), Bool(TRUE), Str(""), Str("x"), Dict(EmptyMap),
     Dict([k \in {"@type"} |-> Str("sc:SoftwareApplication")]), List(<<>>)}
        \cup {List(<<e>>) : e \in GraphEntries}
        \cup {List(<<e1, e2>>) : e1 \in GraphEntries, e2 \in GraphEntries}

BioschemasRecords ==
    {Null, Str("x"), Num(0), List(<<>>), Dict(EmptyMap), SoftwareNode(Str("x")),
     List(<<Dict([k \in {"@graph"} |-> List(<<SoftwareNode(Str("x"))>>)])>>)}
        \cup {Dict([k \in {"@graph"} |-> g]) : g \in Graphs}

RawRecords(tool_type) ==
    IF tool_type = "bioschemas" THEN BioschemasRecords
    ELSE Wrap(Wrap(Leaves, KindKeys(tool_type)), KindKeys(tool_type))

InitExtract ==
    /\ RunIdle
    /\ call \in UNION {
            {[fn |-> "extract_data", tool_type |-> tt, data |-> d, table |-> tb]
                : d \in RawRecords(tt), tb \in DOMAIN Tables}
            : tt \in ToolTypes}
    /\ ret = Pending

Extract ==
    /\ call.fn = "extract_data"
    /\ ret = Pending
    /\ ret' = extract_data(call.tool_type, call.data, Tables[call.table])
    /\ UNCHANGED <<pc, data_dir, output, combined_metadata, visited, events, err, call>>

NextExtract == Extract

SpecExtract == InitExtract /\ [][NextExtract]_vars

\* the call produced a block for its source kind
Extracted ==
    /\ call.fn = "extract_data"
    /\ ret.t = "returned"
    /\ call.tool_type \in DOMAIN ret.v

RECURSIVE SameShape(_, _)
SameShape(out, mappings) ==
    /\ DOMAIN out = DOMAIN mappings
    /\ \A k \in DOMAIN mappings :
        mappings[k].kind = "group" =>
            /\ IsDict(out[k])
            /\ SameShape(out[k].v, mappings[k].fields)

RECURSIVE LeavesNullOrTruthy(_, _)
LeavesNullOrTruthy(out, mappings) ==
    \A k \in DOMAIN mappings \cap DOMAIN out :
        IF mappings[k].kind = "group"
        THEN IsDict(out[k]) /\ LeavesNullOrTruthy(out[k].v, mappings[k].fields)
        ELSE out[k] = Null \/ Truthy(out[k])

\* C6: the evaluated output of a mapping table has exactly the table's field
\* names, and every grouped field is present as a mapping holding all of its
\* child keys, also when nothing in the group resolves.
C6_Shape ==
    Extracted => SameShape(ret.v[call.tool_type], Tables[call.table][call.tool_type])

C6_Witness ==
    /\ Extracted
    /\ call.tool_type = "galaxy"
    /\ call.table = "page"
    /\ call.data = Str("x")
    /\ DOMAIN ret.v["galaxy"]["no_of_tools"].v = {"eu", "org", "au", "be", "cz", "fr", "no"}
    /\ \A k \in DOMAIN ret.v["galaxy"]["no_of_tools"].v :
            ret.v["galaxy"]["no_of_tools"].v[k] = Null

\* C7: every leaf of an extracted record is None or a truthy value: a path that
\* resolves to nothing, "", 0, False, [] or {} is emitted as None.
C7_Leaves ==
    Extracted => LeavesNullOrTruthy(ret.v[call.tool_type], Tables[call.table][call.tool_type])

C7_Witness ==
    /\ Extracted
    /\ call.tool_type = "biotools"
    /\ call.data = Dict([k \in KindKeys("biotools") |-> Str("")])
    /\ ret.v["biotools"]["license"] = Null

(***************************************************************************)
(* Files of the input root.  A file either fails to load (open or the      *)
(* parser raises) or loads to a parsed value.                              *)
(***************************************************************************)
Malformed == [parse |-> "error"]
Parsed(d) == [parse |-> "ok", data |-> d]

\* file_patterns of a folder, in the order of the source; ext is what
\* os.path.splitext gives for the name
file_patterns(folder_name) ==
    << [file_name |-> "bioconda_" \o folder_name \o ".yaml",
        tool_type |-> "bioconda", ext |-> ".yaml"],
       [file_name |-> folder_name \o ".biocontainers.yaml",
        tool_type |-> "biocontainers", ext |-> ".yaml"],
       [file_name |-> folder_name \o ".biotools.json",
        tool_type |-> "biotools", ext |-> ".json"],
       [file_name |-> folder_name \o ".bioschemas.jsonld",
        tool_type |-> "bioschemas", ext |-> ".jsonld"],
       [file_name |-> folder_name \o ".galaxy.json",
        tool_type |-> "galaxy", ext |-> ".json"] >>

\* parse_yaml / parse_json chosen by extension; None for any other extension
LoadFile(file, ext) ==
    IF ext \in {".yaml", ".yml", ".json", ".jsonld"}
    THEN (IF file.parse = "ok" THEN Returned(file.data) ELSE Raised("ParseError"))
    ELSE Returned(Null)

AddContentsNone(contents, tool_type) == contents

\* contents.add(tool_type)
AddContents(contents, tool_type) == contents \cup {tool_type}

\* dict.update({k: v for k, v in extracted.items() if v})
UpdateNonEmpty(target, extracted) ==
    LET kept == {k \in DOMAIN extracted : DOMAIN extracted[k] # {}}
    IN  [k \in DOMAIN target \cup kept |->
            IF k \in kept THEN extracted[k] ELSE target[k]]

\* the loop body of process_files_in_folder for one pattern, on the loop's
\* locals acc = [contents, fetched_metadata, extracted_page_metadata, raised]
ProcessPattern(acc, files, pat) ==
    IF acc.raised # "none" \/ pat.file_name \notin DOMAIN files THEN acc
    ELSE LET acc1 == [acc EXCEPT !.contents = AddContents(@, pat.tool_type)]
             data == LoadFile(files[pat.file_name], pat.ext)
         IN  IF data.t = "raised" THEN [acc1 EXCEPT !.raised = data.v]
             ELSE IF data.v = Null THEN acc1
             ELSE LET extracted_data ==
                          extract_data(pat.tool_type, data.v, SUMMARY_DATA_KEY_MAPPINGS)
                      page_data ==
                          extract_data(pat.tool_type, data.v, PAGE_DATA_KEY_MAPPINGS)
                  IN  IF extracted_data.t = "raised"
                      THEN [acc1 EXCEPT !.raised = extracted_data.v]
                      ELSE IF page_data.t = "raised"
                      THEN [acc1 EXCEPT !.raised = page_data.v]
                      ELSE [acc1 EXCEPT
                              !.fetched_metadata = UpdateNonEmpty(@, extracted_data.v),
                              !.extracted_page_metadata = UpdateNonEmpty(@, page_data.v)]

RECURSIVE ProcessLoop(_, _, _)
ProcessLoop(acc, files, pats) ==
    IF pats = <<>> THEN acc
    ELSE ProcessLoop(ProcessPattern(acc, files, Head(pats)), files, Tail(pats))

\* process_files_in_folder: Raised(e), or Returned of the pair it returns
process_files_in_folder(folder_name, files) ==
    LET pats == file_patterns(folder_name)
    IN  IF ~\E i \in DOMAIN pats : pats[i].file_name \in DOMAIN files
        THEN Returned([metadata |-> EmptyMap, page_metadata |-> EmptyMap])
        ELSE LET acc == ProcessLoop(
                            [contents |-> {}, fetched_metadata |-> EmptyMap,
                             extracted_page_metadata |-> EmptyMap, raised |-> "none"],
                            files, pats)
             IN  IF acc.raised # "none" THEN Raised(acc.raised)
                 ELSE Returned(
                        [metadata |->
                            [tool_name |-> folder_name,
                             contents |-> acc.contents,
                             fetched_metadata |-> acc.fetched_metadata],
                         page_metadata |->
                            [tool_name |-> folder_name,
                             contents |-> acc.contents,
                             page_metadata |-> acc.extracted_page_metadata]])

(***************************************************************************)
(* The run: the __main__ block, main and save_metadata.                    *)
(***************************************************************************)
Folders == {"foo", "bar"}

ScriptMainFirst == <<"main", "rmtree">>

\* the calls of the __main__ block, in program order
Script == <<"rmtree", "main">>

ToolsFile(tool_name) == "tools/" \o tool_name \o ".json"

Event(op, arg) == [op |-> op, arg |-> arg]

\* pc names the call of the script that runs next; after the last one, "done"
Advance(name) ==
    LET i == CHOOSE j \in DOMAIN Script : Script[j] = name
    IN  IF i < Len(Script) THEN Script[i + 1] ELSE "done"

AtStep(name) == pc = name

\* save_metadata(output_file, metadata): makedirs, then write the file
save_metadata(out, output_file, metadata) ==
    [f \in DOMAIN out \cup {output_file} |->
        IF f = output_file THEN metadata ELSE out[f]]

\* shutil.rmtree(output_folder, ignore_errors=True)
ClearOutput ==
    /\ AtStep("rmtree")
    /\ output' = EmptyMap
    /\ events' = Append(events, Event("rmtree", "output"))
    /\ pc' = Advance(pc)
    /\ UNCHANGED <<data_dir, combined_metadata, visited, err, call, ret>>

\* one iteration of main's loop over os.walk(data_dir), for a folder the walk
\* has not yielded yet
VisitFolder ==
    /\ AtStep("main")
    /\ \E root \in DOMAIN data_dir \ visited :
        LET r == process_files_in_folder(root, data_dir[root])
        IN  /\ visited' = visited \cup {root}
            /\ IF r.t = "raised"
               THEN /\ pc' = "aborted"
                    /\ err' = r.v
                    /\ events' = Append(events, Event("process", root))
                    /\ UNCHANGED <<combined_metadata, output>>
               ELSE IF DOMAIN r.v.metadata = {} \/ DOMAIN r.v.page_metadata = {}
               THEN /\ events' = Append(events, Event("process", root))
                    /\ UNCHANGED <<pc, err, combined_metadata, output>>
               ELSE /\ combined_metadata' = Append(combined_metadata, r.v.metadata)
                    /\ output' = save_metadata(output,
                                    ToolsFile(r.v.page_metadata.tool_name),
                                    r.v.page_metadata)
                    /\ events' = events \o
                            <<Event("process", root),
                              Event("write", ToolsFile(r.v.page_metadata.tool_name))>>
                    /\ UNCHANGED <<pc, err>>
    /\ UNCHANGED <<data_dir, call, ret>>

\* save_metadata("combined_metadata.json", combined_metadata), after the loop
SaveCombined ==
    /\ AtStep("main")
    /\ visited = DOMAIN data_dir
    /\ output' = save_metadata(output, "combined_metadata.json", combined_metadata)
    /\ events' = Append(events, Event("write", "combined_metadata.json"))
    /\ pc' = Advance(pc)
    /\ UNCHANGED <<data_dir, combined_metadata, visited, err, call, ret>>

(***************************************************************************)
(* Bounded input roots: at most MaxFiles source files over the folders,    *)
(* each malformed or holding one of the sample documents of its kind.      *)
(***************************************************************************)
MaxFiles == 2

Person == Dict([k \in {"@type"} |-> Str("sc:Person")])

GraphDoc(g) == Dict([k \in {"@graph"} |-> g])

Samples(tool_type) ==
    IF tool_type = "bioschemas"
    THEN {Null, List(<<>>), Dict(EmptyMap),
          GraphDoc(Null), GraphDoc(List(<<Person>>)), GraphDoc(List(<<Str("x")>>)),
          GraphDoc(List(<<Person, SoftwareNode(Str("x"))>>))}
    ELSE {Null, Str("x"),
          Dict([k \in KindKeys(tool_type) |->
                    List(<<Dict([k2 \in KindKeys(tool_type) |-> Str("x")])>>)])}

FileStates(tool_type) == {Malformed} \cup {Parsed(d) : d \in Samples(tool_type)}

Slots ==
    UNION {{[folder |-> fo, pat |-> file_patterns(fo)[i]] : i \in DOMAIN file_patterns(fo)}
           : fo \in Folders}

\* the ways to fill the slots S with files
RECURSIVE Fillings(_)
Fillings(S) ==
    IF S = {} THEN {EmptyMap}
    ELSE LET s == CHOOSE x \in S : TRUE
         IN  {[x \in {s} \cup DOMAIN rest |-> IF x = s THEN fs ELSE rest[x]]
                : fs \in FileStates(s.pat.tool_type), rest \in Fillings(S \ {s})}

InputRoots ==
    UNION {
        {[fo \in Folders |->
            [n \in {s.pat.file_name : s \in {s \in S : s.folder = fo}} |->
                LET s == CHOOSE s \in S : s.folder = fo /\ s.pat.file_name = n
                IN  pick[s]]]
         : pick \in Fillings(S)}
        : S \in {S \in SUBSET Slots : Cardinality(S) <= MaxFiles}}

\* what an earlier run left in the output root
StaleOutput ==
    [f \in {"combined_metadata.json", ToolsFile("old")} |-> EmptyMap]

Init ==
    /\ pc = Script[1]
    /\ data_dir \in InputRoots
    /\ output \in {EmptyMap, StaleOutput}
    /\ combined_metadata = <<>>
    /\ visited = {}
    /\ events = <<>>
    /\ err = "none"
    /\ call = NoCall
    /\ ret = Pending

Next == ClearOutput \/ VisitFolder \/ SaveCombined

Spec == Init /\ [][Next]_vars

(***************************************************************************)
(* Properties of the run.                                                  *)
(***************************************************************************)
\* the source kinds whose file exists in a folder
ExistingKinds(fo) ==
    {file_patterns(fo)[i].tool_type :
        i \in {i \in DOMAIN file_patterns(fo) :
                file_patterns(fo)[i].file_name \in DOMAIN data_dir[fo]}}

\* the folders that have an entry in the combined list
Listed == {combined_metadata[i].tool_name : i \in DOMAIN combined_metadata}

Processed(fo) == fo \in visited /\ process_files_in_folder(fo, data_dir[fo]).t = "returned"

ResultOf(fo) == process_files_in_folder(fo, data_dir[fo]).v

\* C1: a visited folder has an entry in the combined list and a page file iff
\* both its fetched_metadata and its page_metadata are non-empty; no entry of
\* the combined list and no page file holds an empty inner mapping.
C1_BothNonEmpty ==
    /\ \A fo \in DOMAIN data_dir :
        Processed(fo) =>
            ((fo \in Listed /\ ToolsFile(fo) \in DOMAIN output)
                <=> /\ DOMAIN ResultOf(fo).metadata # {}
                    /\ DOMAIN ResultOf(fo).page_metadata # {}
                    /\ DOMAIN ResultOf(fo).metadata.fetched_metadata # {}
                    /\ DOMAIN ResultOf(fo).page_metadata.page_metadata # {})
    /\ \A i \in DOMAIN combined_metadata :
        DOMAIN combined_metadata[i].fetched_metadata # {}

\* C2 as stated: contents of every record process(folder) returns is the set of
\* source kinds that have a block in fetched_metadata or in page_metadata.
C2_ContentsOrig ==
    \A i \in DOMAIN combined_metadata :
        LET m == combined_metadata[i]
            page == output[ToolsFile(m.tool_name)]
        IN  /\ m.contents
                    = DOMAIN m.fetched_metadata \cup DOMAIN page.page_metadata
            /\ page.contents = m.contents

\* C2 amended: contents of every record process(folder) returns is the set of
\* source kinds whose file exists in the folder, whether or not the file gave a
\* block; every kind with a block in fetched_metadata or page_metadata is in it.
C2_Contents ==
    \A i \in DOMAIN combined_metadata :
        LET m == combined_metadata[i]
            page == output[ToolsFile(m.tool_name)]
        IN  /\ m.contents = ExistingKinds(m.tool_name)
            /\ page.contents = ExistingKinds(m.tool_name)
            /\ DOMAIN m.fetched_metadata \cup DOMAIN page.page_metadata
                    \subseteq m.contents

C2_Witness ==
    /\ Len(combined_metadata) = 1
    /\ pc = "main"
    /\ combined_metadata[1].contents = {"bioconda", "bioschemas"}
    /\ DOMAIN combined_metadata[1].fetched_metadata = {"bioconda"}

\* a folder whose only file is a bioschemas document that parses to a mapping
\* whose graph (absent, or a list of mappings) has no node typed sc:SoftwareApplication
OnlyBioschemasWithoutNode(fo) ==
    /\ ExistingKinds(fo) = {"bioschemas"}
    /\ data_dir[fo][fo \o ".bioschemas.jsonld"]
            \in {Parsed(Dict(EmptyMap)), Parsed(GraphDoc(List(<<Person>>)))}

\* C3: a folder whose only file is a bioschemas file without a node typed
\* sc:SoftwareApplication behaves as the folder without that file: process
\* returns the two empty results, and the folder is neither in the combined
\* list nor given a page file.
C3_AsAbsent ==
    \A fo \in DOMAIN data_dir :
        (OnlyBioschemasWithoutNode(fo) /\ fo \in visited) =>
            /\ process_files_in_folder(fo, data_dir[fo])
                = process_files_in_folder(fo, EmptyMap)
            /\ fo \notin Listed
            /\ ToolsFile(fo) \notin DOMAIN output

\* C8: a run that aborts on a parse or I/O failure leaves no per-tool file of
\* the folders processed before the failure in the output root.
C8_NoPartialOutput ==
    (pc = "aborted" /\ err = "ParseError") =>
        \A fo \in DOMAIN data_dir : ToolsFile(fo) \notin DOMAIN output

\* C9: the output root is cleared exactly once, before any folder is processed
\* and before any file is written; combined_metadata.json is written after
\* every per-tool file.
C9_ClearFirst ==
    /\ \A i \in DOMAIN events : (events[i].op = "rmtree") <=> (i = 1)
    /\ (events = <<>>) <=> (pc = Script[1])
    /\ (events = <<>>) => (visited = {} /\ output \in {EmptyMap, StaleOutput})
    /\ \A i \in DOMAIN events :
        events[i] = Event("write", "combined_metadata.json")
            => (i = Len(events) /\ pc = "done")
    /\ pc = "done" =>
        /\ events[Len(events)] = Event("write", "combined_metadata.json")
        /\ DOMAIN output = {"combined_metadata.json"} \cup {ToolsFile(fo) : fo \in Listed}

C9_Witness ==
    /\ pc = "done"
    /\ Len(combined_metadata) = 2
    /\ Len(events) = 6

\* C10: extraction raises no error on any parsed document, whatever its shape:
\* a run is never ended by an error other than a failure to load a file.
C10_NoShapeError == err \in {"none", "ParseError"}

====
